---- MODULE Spec2Model ----
(***************************************************************************)
(* Nearest-neighbour tour construction of TSP::nearestNeighbor             *)
(* (src/TSP.cpp), one call at a time, stepped at the granularity of the    *)
(* code's own phases: locating and erasing the start city, one iteration   *)
(* of the while loop, the closing edge.  The unimplemented copy of the     *)
(* same function in src/Project 3/TSP.cpp is modelled as its own           *)
(* specification, SpecProject3.                                            *)
(***************************************************************************)
EXTENDS Integers, Sequences, FiniteSets, TLC

VARIABLES input, start_id, cities, current, tour, pc, iters

vars == <<input, start_id, cities, current, tour, pc, iters>>

----------------------------------------------------------------------------
(* Bounds of the checked inputs. *)

\* most cities in an input list
MaxN == 3
\* largest x coordinate of a grid city
MaxCoord == 1
\* cap on the loop counter, reached only when a loop fails to consume its list
MaxIters == 6

----------------------------------------------------------------------------
(* Data *)

\* Node(ID, x, y)
Node(i, px, py) == [id |-> i, x |-> px, y |-> py]

\* floor of the square root: the narrowing of sqrt's double to size_t
ISqrt(n) == CHOOSE r \in 0..n : r * r <= n /\ (r + 1) * (r + 1) > n

\* Node::distance: Euclidean distance truncated to an unsigned integer
distance(a, b) ==
    ISqrt((a.x - b.x) * (a.x - b.x) + (a.y - b.y) * (a.y - b.y))

\* TSP::Tour as default-constructed and then filled by nearestNeighbor
EmptyTour == [path |-> <<>>, weights |-> <<>>, total_distance |-> 0]

\* a loop that forgets to consume the list
EraseNothing(s, k) == s

\* pop_front in place of erase(it)
EraseFront(s, k) == Tail(s)

\* std::list::erase at position k
Erase(s, k) == [i \in 1..(Len(s) - 1) |-> IF i < k THEN s[i] ELSE s[i + 1]]

\* std::vector::push_back
PushBack(s, e) == Append(s, e)

Ids(s) == {s[i].id : i \in 1..Len(s)}

RECURSIVE Sum(_)
Sum(s) == IF s = <<>> THEN 0 ELSE s[1] + Sum(Tail(s))

----------------------------------------------------------------------------
(* Inputs *)

IdSet == 1..MaxN

\* where a grid city can lie: on the x axis up to MaxCoord, or at (0,1), off
\* the axis, from where the distances to the axis are truncated square roots
GridPoints == {<<px, 0>> : px \in 0..MaxCoord} \cup {<<0, 1>>}

\* the ids of a list of n cities, in list order: pairwise different
IdOrders(n) == {q \in [1..n -> IdSet] : \A i, j \in 1..n : q[i] = q[j] => i = j}

\* lists of at most MaxN grid cities with pairwise different ids, in every
\* enumeration order
GridInputs ==
    UNION {{[i \in 1..n |-> Node(q[i], xy[i][1], xy[i][2])] :
                q \in IdOrders(n), xy \in [1..n -> GridPoints]} : n \in 0..MaxN}

\* the two concrete scenarios: {1:(0,0), 2:(3,0), 3:(3,4)} in each of its
\* enumeration orders, and the single city {1:(5,5)}
Triangle == <<Node(1, 0, 0), Node(2, 3, 0), Node(3, 3, 4)>>
TriangleInputs ==
    {[i \in 1..3 |-> Triangle[p[i]]] :
        p \in {q \in [1..3 -> 1..3] : \A i, j \in 1..3 : q[i] = q[j] => i = j}}
ScenarioInputs == TriangleInputs \cup {<<Node(1, 5, 5)>>}

\* what *cities.end() can read: no element of the list
GarbageNodes == {Node(0, 0, 0), Node(0, MaxCoord, 0)}

NoNode == Node(0, 0, 0)

----------------------------------------------------------------------------
(* The start lookup, lines 149-157 *)

RECURSIVE FindFrom(_, _, _)
FindFrom(s, sid, i) ==
    IF i > Len(s) THEN 0
    ELSE IF s[i].id = sid THEN i
    ELSE FindFrom(s, sid, i + 1)

\* position of the first city whose id is start_id; 0 stands for cities.end()
start_it(s, sid) == FindFrom(s, sid, 1)

----------------------------------------------------------------------------
(* The inner scan, lines 170-182 *)

RECURSIVE ScanFrom(_, _, _, _)
ScanFrom(cur, s, i, best) ==
    IF i > Len(s) THEN best
    ELSE LET dist == distance(cur, s[i]) IN
         IF dist < best.min_distance
         THEN ScanFrom(cur, s, i + 1, [nearest_it |-> i, min_distance |-> dist])
         ELSE ScanFrom(cur, s, i + 1, best)

\* the scan with <= in place of <: the last minimum wins
RECURSIVE ScanFromLE(_, _, _, _)
ScanFromLE(cur, s, i, best) ==
    IF i > Len(s) THEN best
    ELSE LET dist == distance(cur, s[i]) IN
         IF dist <= best.min_distance
         THEN ScanFromLE(cur, s, i + 1, [nearest_it |-> i, min_distance |-> dist])
         ELSE ScanFromLE(cur, s, i + 1, best)

nearestLastMin(cur, s) ==
    ScanFromLE(cur, s, 2, [nearest_it |-> 1, min_distance |-> distance(cur, s[1])])

\* the scan with > in place of <: the farthest city wins
RECURSIVE ScanFromGT(_, _, _, _)
ScanFromGT(cur, s, i, best) ==
    IF i > Len(s) THEN best
    ELSE LET dist == distance(cur, s[i]) IN
         IF dist > best.min_distance
         THEN ScanFromGT(cur, s, i + 1, [nearest_it |-> i, min_distance |-> dist])
         ELSE ScanFromGT(cur, s, i + 1, best)

nearestFarthest(cur, s) ==
    ScanFromGT(cur, s, 2, [nearest_it |-> 1, min_distance |-> distance(cur, s[1])])

nearest(cur, s) ==
    ScanFrom(cur, s, 2, [nearest_it |-> 1, min_distance |-> distance(cur, s[1])])

----------------------------------------------------------------------------
(* The updates of the tour *)

\* lines 161-165: the tour holding the start city alone
StartTour(c) ==
    [path |-> PushBack(EmptyTour.path, c),
     weights |-> PushBack(EmptyTour.weights, 0),
     total_distance |-> 0]

\* the update that forgets total_distance += min_distance
VisitTourNoTotal(t, c, min_distance) ==
    [path |-> PushBack(t.path, c),
     weights |-> PushBack(t.weights, min_distance),
     total_distance |-> t.total_distance]

\* lines 185-187: the selected city joins the tour
VisitTour(t, c, min_distance) ==
    [path |-> PushBack(t.path, c),
     weights |-> PushBack(t.weights, min_distance),
     total_distance |-> t.total_distance + min_distance]

\* the closing edge measured from the start city instead of from current
CloseTourFromStart(t, cur) ==
    LET return_distance == distance(t.path[1], t.path[1]) IN
    [path |-> PushBack(t.path, t.path[1]),
     weights |-> PushBack(t.weights, return_distance),
     total_distance |-> t.total_distance + return_distance]

\* the closing step that forgets path.push_back(path.front())
CloseTourNoCopy(t, cur) ==
    LET return_distance == distance(cur, t.path[1]) IN
    [path |-> t.path,
     weights |-> PushBack(t.weights, return_distance),
     total_distance |-> t.total_distance + return_distance]

\* lines 195-198: the edge back to the start city
CloseTour(t, cur) ==
    LET return_distance == distance(cur, t.path[1]) IN
    [path |-> PushBack(t.path, t.path[1]),
     weights |-> PushBack(t.weights, return_distance),
     total_distance |-> t.total_distance + return_distance]

----------------------------------------------------------------------------
(* State machine of one call *)

Init ==
    /\ input \in GridInputs \cup ScenarioInputs
    /\ start_id \in 1..(MaxN + 1)
    /\ cities = input
    /\ current = NoNode
    /\ tour = EmptyTour
    /\ pc = "call"
    /\ iters = 0

\* lines 149-165 when the lookup finds the start city
Start ==
    /\ pc = "call"
    /\ start_it(cities, start_id) # 0
    /\ LET k == start_it(cities, start_id) IN
        /\ current' = cities[k]
        /\ cities' = Erase(cities, k)
        /\ tour' = StartTour(cities[k])
    /\ pc' = "loop"
    /\ UNCHANGED <<input, start_id, iters>>

\* lines 158-165 when the lookup found nothing: *cities.end() and
\* cities.erase(cities.end()) are undefined.  The call is killed (the erase
\* frees a node that was never allocated), or never comes back (the list has
\* lost its sentinel), or goes on from a Node that is no city, with every
\* city still in the list.
DerefEnd ==
    /\ pc = "call"
    /\ start_it(cities, start_id) = 0
    /\ \/ /\ pc' \in {"aborted", "hung"}
          /\ UNCHANGED <<cities, current, tour>>
       \/ /\ \E g \in GarbageNodes :
                /\ current' = g
                /\ tour' = StartTour(g)
          /\ pc' = "loop"
          /\ UNCHANGED cities
    /\ UNCHANGED <<input, start_id, iters>>

\* lines 167-192: one iteration of the while loop
SelectNearest ==
    /\ pc = "loop"
    /\ cities # <<>>
    /\ iters < MaxIters
    /\ LET n == nearest(current, cities) IN
        /\ tour' = VisitTour(tour, cities[n.nearest_it], n.min_distance)
        /\ current' = cities[n.nearest_it]
        /\ cities' = Erase(cities, n.nearest_it)
    /\ iters' = iters + 1
    /\ UNCHANGED <<input, start_id, pc>>

\* lines 194-200: the closing edge and the return
Close ==
    /\ pc = "loop"
    /\ cities = <<>>
    /\ tour' = CloseTour(tour, current)
    /\ pc' = "returned"
    /\ UNCHANGED <<input, start_id, cities, current, iters>>

Next == Start \/ DerefEnd \/ SelectNearest \/ Close

Spec == Init /\ [][Next]_vars

\* the call runs on its own thread of control to its end: no step waits
LiveSpec == Spec /\ WF_vars(Next)

----------------------------------------------------------------------------
(* The copy of the function in src/Project 3/TSP.cpp *)

\* Tour t; return t;  -- nothing of the Tour is filled in, and
\* total_distance is whatever the default construction leaves
nearestNeighborProject3 ==
    /\ pc = "call"
    /\ \E d \in 0..1 : tour' = [EmptyTour EXCEPT !.total_distance = d]
    /\ pc' = "returned"
    /\ UNCHANGED <<input, start_id, cities, current, iters>>

NextProject3 == nearestNeighborProject3

SpecProject3 == Init /\ [][NextProject3]_vars

----------------------------------------------------------------------------
(* Properties *)

TypeOK ==
    /\ pc \in {"call", "loop", "returned", "aborted", "hung"}
    /\ iters \in 0..MaxIters
    /\ Len(cities) <= Len(input)

\* the loop counter's cap never stops the loop
CapUnused == iters < MaxIters

\* the preconditions of the call: a city list that is not empty and holds
\* the start city
Valid == input # <<>> /\ start_id \in Ids(input)

N == Len(input)

\* the state in which the call has handed a Tour back to its caller
Returned == pc = "returned"

\* C1: for a list of N >= 1 cities with unique ids and a start_id among
\* them, the returned path has N+1 elements, starts and ends with the city
\* start_id, and holds every input city exactly once in its first N places.
C1_TourShape ==
    (Returned /\ Valid) =>
        /\ Len(tour.path) = N + 1
        /\ tour.path[1].id = start_id
        /\ tour.path[N + 1].id = start_id
        /\ \A c \in 1..N :
              Cardinality({i \in 1..N : tour.path[i] = input[c]}) = 1

\* C2: a call on an empty list or with a start_id the list does not hold
\* ends in a PreconditionError and leaves no Tour.
C2_PreconditionError ==
    (pc # "call" /\ ~Valid) => (pc = "PreconditionError" /\ tour = EmptyTour)

\* C3: every iteration of the loop appends the first city, in list order,
\* among the remaining cities at least distance from current: none is
\* strictly closer, and none as close stands before it in the list.
C3_Selected ==
    (pc = "loop" /\ pc' = "loop" /\ tour' # tour) =>
        \E k \in 1..Len(cities) :
            /\ tour'.path = Append(tour.path, cities[k])
            /\ current' = cities[k]
            /\ \A j \in 1..Len(cities) :
                  distance(current, cities[j]) >= distance(current, cities[k])
            /\ \A j \in 1..(k - 1) :
                  distance(current, cities[j]) > distance(current, cities[k])
C3_FirstNearest == [][C3_Selected]_vars

\* a city has just been selected while another one, later in the list and
\* with a smaller id, was exactly as close
C3_Witness ==
    /\ pc = "loop"
    /\ Valid
    /\ Len(tour.path) >= 2
    /\ \E j \in 1..Len(cities) :
          /\ distance(tour.path[Len(tour.path) - 1], cities[j])
                = tour.weights[Len(tour.weights)]
          /\ cities[j].id < current.id

\* C4: in a returned Tour weights is as long as path, its first entry is 0
\* and every later entry i is the distance from path[i-1] to path[i]; the
\* last entry is the distance from the last visited city back to the start.
C4_WeightsParallel ==
    Returned =>
        /\ Len(tour.weights) = Len(tour.path)
        /\ tour.weights[1] = 0
        /\ \A i \in 2..Len(tour.path) :
              tour.weights[i] = distance(tour.path[i - 1], tour.path[i])
        /\ tour.weights[Len(tour.weights)] = distance(current, tour.path[1])

C4_Witness ==
    /\ Returned
    /\ Valid
    /\ Len(tour.path) >= 4
    /\ tour.weights[Len(tour.weights)] > 0
    /\ tour.weights[2] # tour.weights[Len(tour.weights)]

\* C5: total_distance is the sum of the entries of weights, in every state
\* of the construction and in the returned Tour.
C5_TotalIsSum == tour.total_distance = Sum(tour.weights)

C5_Witness ==
    /\ Returned
    /\ Len(tour.weights) >= 4
    /\ tour.total_distance >= 3

\* C7: for a list of one city and its id as start_id the loop does not run
\* and the Tour is path = [start, start], weights = [0, 0], total 0.
C7_SinglePoint ==
    (Returned /\ Len(input) = 1 /\ input[1].id = start_id) =>
        /\ iters = 0
        /\ tour = [path |-> <<input[1], input[1]>>,
                   weights |-> <<0, 0>>,
                   total_distance |-> 0]

C7_Witness ==
    /\ Returned
    /\ input = <<Node(1, 5, 5)>>
    /\ start_id = 1

\* C8: for the cities 1:(0,0), 2:(3,0), 3:(3,4) in any list order and
\* start_id 1 the Tour is path 1,2,3,1, weights 0,3,4,5, total 12.
C8_Triangle ==
    (Returned /\ input \in TriangleInputs /\ start_id = 1) =>
        /\ tour.path = <<Triangle[1], Triangle[2], Triangle[3], Triangle[1]>>
        /\ tour.weights = <<0, 3, 4, 5>>
        /\ tour.total_distance = 12

C8_Witness ==
    /\ Returned
    /\ input = <<Triangle[3], Triangle[2], Triangle[1]>>
    /\ start_id = 1

\* C9: with valid arguments the construction ends; removing the start takes
\* exactly one city off the list, every iteration takes exactly one more,
\* the list never grows, it is empty at the closing step, and the loop has
\* then run exactly N-1 times.
C9_Step ==
    Valid =>
        \/ /\ pc = "call" /\ pc' = "loop"
           /\ Len(cities') = Len(cities) - 1
           /\ iters' = 0
        \/ /\ pc = "loop" /\ pc' = "loop"
           /\ Len(cities') = Len(cities) - 1
           /\ iters' = iters + 1
        \/ /\ pc = "loop" /\ pc' = "returned"
           /\ cities = <<>> /\ cities' = <<>>
           /\ iters' = iters
           /\ iters = N - 1
C9_Terminates == [][C9_Step]_vars /\ (Valid => <>Returned)

C9_Witness ==
    /\ Returned
    /\ Valid
    /\ iters >= 2
    /\ cities = <<>>

\* C10: from the removal of the start city to the closing step the ids in
\* path and the ids left in the list are disjoint, together they are the
\* input's ids, and current is the last element of path.
C10_Partition ==
    (pc = "loop" /\ Valid) =>
        /\ Ids(tour.path) \cap Ids(cities) = {}
        /\ Ids(tour.path) \cup Ids(cities) = Ids(input)
        /\ Len(tour.path) + Len(cities) = N
        /\ current = tour.path[Len(tour.path)]

C10_Witness ==
    /\ pc = "loop"
    /\ Valid
    /\ Len(tour.path) >= 2
    /\ cities # <<>>

====
